---- MODULE Spec2Model ----
(***************************************************************************)
(* A model of the toggl-go client library: the Reports API v2 client       *)
(* (package reports: NewClient, buildURL, get, checkResponse, decodeJSON,  *)
(* StandardRequestParameters.values) and the tag methods of the track API  *)
(* client (package toggl: GetTags, CreateTag, UpdateTag, DeleteTag).       *)
(*                                                                         *)
(* Go strings are TLA+ strings, handled character by character where the   *)
(* code escapes, joins or splits them.  A Go error is a record with a      *)
(* "type" field; the nil error is NilErr.  A pointer's identity is the     *)
(* "alloc" field of the record: the place that allocated it.               *)
(***************************************************************************)
EXTENDS Integers, Sequences, FiniteSets, TLC

VARIABLES
    client,   \* the reports Client shared by every caller
    calls,    \* calls[i]: the report request of caller i, and where it stands
    tclient,  \* the track API client
    tcall     \* the tag request in progress, and where it stands

vars == <<client, calls, tclient, tcall>>

-----------------------------------------------------------------------------
(* Bounds of the model.                                                    *)

\* Callers that may use the same Client at the same time.
NCalls == 2
\* Optional request parameters a caller sets in one request.
MaxSet == 1

-----------------------------------------------------------------------------
(* Strings.                                                                *)

\* Body(value): the value is worked out once and named in the body.
With(value, Body(_)) == CHOOSE result \in {Body(v) : v \in {value}} : TRUE

Char(s, i) == SubSeq(s, i, i)

RECURSIVE IndexFrom(_, _, _)
\* strings.Index from position i: the first position of character c, 0 if none.
IndexFrom(s, c, i) ==
    IF i > Len(s) THEN 0
    ELSE IF Char(s, i) = c THEN i
    ELSE IndexFrom(s, c, i + 1)

Index(s, c) == IndexFrom(s, c, 1)

RECURSIVE Split(_, _)
\* strings.Split on a one-character separator.
Split(s, c) ==
    With(Index(s, c), LAMBDA i :
        IF i = 0 THEN <<s>>
        ELSE <<SubSeq(s, 1, i - 1)>> \o Split(SubSeq(s, i + 1, Len(s)), c))

\* strconv.Itoa padded with zeros to a width, as time.Format pads a date field.
Pad(n, width) ==
    With(ToString(n), LAMBDA s :
        IF Len(s) >= width THEN s
        ELSE IF width - Len(s) = 1 THEN "0" \o s
        ELSE IF width - Len(s) = 2 THEN "00" \o s
        ELSE "000" \o s)

-----------------------------------------------------------------------------
(* net/url: query escaping, url.Values, URL.                               *)

\* The characters url.QueryEscape must escape, over the model's alphabet.
EscapeTable ==
    [c \in {" ", ",", "&", "=", "+", "%", ":", "/", "?"} |->
        CASE c = " " -> "+"
          [] c = "," -> "%2C"
          [] c = "&" -> "%26"
          [] c = "=" -> "%3D"
          [] c = "+" -> "%2B"
          [] c = "%" -> "%25"
          [] c = ":" -> "%3A"
          [] c = "/" -> "%2F"
          [] c = "?" -> "%3F"]

RECURSIVE QueryEscape(_)
QueryEscape(s) ==
    IF s = "" THEN ""
    ELSE LET c == Char(s, 1)
         IN  (IF c \in DOMAIN EscapeTable THEN EscapeTable[c] ELSE c)
                 \o QueryEscape(SubSeq(s, 2, Len(s)))

RECURSIVE QueryUnescape(_)
QueryUnescape(s) ==
    IF s = "" THEN ""
    ELSE LET c == Char(s, 1)
         IN  IF c = "+" THEN " " \o QueryUnescape(SubSeq(s, 2, Len(s)))
             ELSE IF c = "%" /\ Len(s) >= 3
             THEN LET hex == SubSeq(s, 1, 3)
                      src == {d \in DOMAIN EscapeTable : EscapeTable[d] = hex}
                  IN  (IF src = {} THEN hex ELSE CHOOSE d \in src : TRUE)
                          \o QueryUnescape(SubSeq(s, 4, Len(s)))
             ELSE c \o QueryUnescape(SubSeq(s, 2, Len(s)))

\* url.Values{}: a map from a key to the list of its values.
EmptyValues == [k \in {} |-> <<>>]

\* url.Values.Add
Add(v, key, value) ==
    [k \in DOMAIN v \cup {key} |->
        IF k = key
        THEN (IF k \in DOMAIN v THEN v[k] ELSE <<>>) \o <<value>>
        ELSE v[k]]

\* The query keys of the Reports API in the order url.Values.Encode sorts them.
SortedKeys ==
    << "billable", "client_ids", "description", "display_hours",
       "distinct_rates", "members_of_group_ids", "or_members_of_group_ids",
       "order_desc", "order_field", "page", "project_ids", "rounding",
       "since", "tag_ids", "task_ids", "time_entry_ids", "until",
       "user_agent", "user_ids", "without_description", "workspace_id" >>

RECURSIVE EncodeKey(_, _, _)
\* The "key=value" pairs of one key, each preceded by "&".
EncodeKey(key, vs, i) ==
    IF i > Len(vs) THEN ""
    ELSE "&" \o QueryEscape(key) \o "=" \o QueryEscape(vs[i])
             \o EncodeKey(key, vs, i + 1)

RECURSIVE EncodeFrom(_, _)
EncodeFrom(v, i) ==
    IF i > Len(SortedKeys) THEN ""
    ELSE (IF SortedKeys[i] \in DOMAIN v
          THEN EncodeKey(SortedKeys[i], v[SortedKeys[i]], 1)
          ELSE "") \o EncodeFrom(v, i + 1)

\* url.Values.Encode: "k1=v1&k2=v2", sorted by key, keys and values escaped.
Encode(v) ==
    With(EncodeFrom(v, 1), LAMBDA s : IF s = "" THEN "" ELSE SubSeq(s, 2, Len(s)))

RECURSIVE ParsePairs(_, _, _)
ParsePairs(pairs, i, acc) ==
    IF i > Len(pairs) THEN acc
    ELSE IF pairs[i] = "" THEN ParsePairs(pairs, i + 1, acc)
    ELSE With(Index(pairs[i], "="), LAMBDA eq :
            ParsePairs(pairs, i + 1,
                Add(acc,
                    QueryUnescape(IF eq = 0 THEN pairs[i]
                                  ELSE SubSeq(pairs[i], 1, eq - 1)),
                    QueryUnescape(IF eq = 0 THEN ""
                                  ELSE SubSeq(pairs[i], eq + 1, Len(pairs[i]))))))

\* url.ParseQuery, what a server's r.URL.Query() returns for a raw query.
ParseQuery(rawQuery) == ParsePairs(Split(rawQuery, "&"), 1, EmptyValues)

-----------------------------------------------------------------------------
(* time.Time, to the second.                                               *)

\* The zero time.Time: January 1, year 1, 00:00:00 UTC.
ZeroTime ==
    [year |-> 1, month |-> 1, day |-> 1, hour |-> 0, minute |-> 0, second |-> 0]

\* time.Time.IsZero
IsZero(t) == t = ZeroTime

\* time.Time.Format("2006-01-02")
FormatDate(t) == Pad(t.year, 4) \o "-" \o Pad(t.month, 2) \o "-" \o Pad(t.day, 2)

-----------------------------------------------------------------------------
(* StandardRequestParameters and its encoding.                             *)

ZeroParameters ==
    [ UserAgent           |-> "",
      WorkSpaceId         |-> "",
      Since               |-> ZeroTime,
      Until               |-> ZeroTime,
      Billable            |-> "",
      ClientIds           |-> "",
      ProjectIds          |-> "",
      UserIds             |-> "",
      MembersOfGroupIds   |-> "",
      OrMembersOfGroupIds |-> "",
      TagIds              |-> "",
      TaskIds             |-> "",
      TimeEntryIds        |-> "",
      Description         |-> "",
      WithoutDescription  |-> FALSE,
      OrderField          |-> "",
      OrderDesc           |-> FALSE,
      DistinctRates       |-> FALSE,
      Rounding            |-> FALSE,
      DisplayHours        |-> "" ]

\* A field added whether it is set or not.
AddIf_Always(v, cond, key, value) == Add(v, key, value)

\* if cond { values.Add(key, value) }
AddIf(v, cond, key, value) == IF cond THEN Add(v, key, value) ELSE v

\* StandardRequestParameters.values
values(params) ==
    LET v0  == Add(EmptyValues, "user_agent", params.UserAgent)
        v1  == Add(v0, "workspace_id", params.WorkSpaceId)
        v2  == AddIf(v1, ~IsZero(params.Since), "since", FormatDate(params.Since))
        v3  == AddIf(v2, ~IsZero(params.Until), "until", FormatDate(params.Until))
        v4  == AddIf(v3, params.Billable # "", "billable", params.Billable)
        v5  == AddIf(v4, params.ClientIds # "", "client_ids", params.ClientIds)
        v6  == AddIf(v5, params.ProjectIds # "", "project_ids", params.ProjectIds)
        v7  == AddIf(v6, params.UserIds # "", "user_ids", params.UserIds)
        v8  == AddIf(v7, params.MembersOfGroupIds # "",
                     "members_of_group_ids", params.MembersOfGroupIds)
        v9  == AddIf(v8, params.OrMembersOfGroupIds # "",
                     "or_members_of_group_ids", params.OrMembersOfGroupIds)
        v10 == AddIf(v9, params.TagIds # "", "tag_ids", params.TagIds)
        v11 == AddIf(v10, params.TaskIds # "", "task_ids", params.TaskIds)
        v12 == AddIf(v11, params.TimeEntryIds # "",
                     "time_entry_ids", params.TimeEntryIds)
        v13 == AddIf(v12, params.Description # "", "description", params.Description)
        v14 == AddIf(v13, params.WithoutDescription = TRUE,
                     "without_description", "true")
        v15 == AddIf(v14, params.OrderField # "", "order_field", params.OrderField)
        v16 == AddIf(v15, params.OrderDesc = TRUE, "order_desc", "on")
        v17 == AddIf(v16, params.DistinctRates = TRUE, "distinct_rates", "on")
        v18 == AddIf(v17, params.Rounding = TRUE, "rounding", "on")
        v19 == AddIf(v18, params.DisplayHours # "", "display_hours", params.DisplayHours)
    IN  v19

\* The query key of each field of StandardRequestParameters.
KeyOfField ==
    [ UserAgent           |-> "user_agent",
      WorkSpaceId         |-> "workspace_id",
      Since               |-> "since",
      Until               |-> "until",
      Billable            |-> "billable",
      ClientIds           |-> "client_ids",
      ProjectIds          |-> "project_ids",
      UserIds             |-> "user_ids",
      MembersOfGroupIds   |-> "members_of_group_ids",
      OrMembersOfGroupIds |-> "or_members_of_group_ids",
      TagIds              |-> "tag_ids",
      TaskIds             |-> "task_ids",
      TimeEntryIds        |-> "time_entry_ids",
      Description         |-> "description",
      WithoutDescription  |-> "without_description",
      OrderField          |-> "order_field",
      OrderDesc           |-> "order_desc",
      DistinctRates       |-> "distinct_rates",
      Rounding            |-> "rounding",
      DisplayHours        |-> "display_hours" ]

\* DetailedRequestParameters.urlEncode: the standard parameters, and the page
\* when it is set.
urlEncode(params) ==
    Encode(AddIf(values(params.std), params.Page # 0, "page", ToString(params.Page)))

-----------------------------------------------------------------------------
(* The parameter objects callers pass.                                     *)

\* A value a caller may give each field when it sets it.
SetValue ==
    [ UserAgent           |-> "toggl go",
      WorkSpaceId         |-> "1234567",
      Since               |-> [ZeroTime EXCEPT !.year = 2020, !.day = 2],
      Until               |-> [ZeroTime EXCEPT !.year = 2020, !.month = 12, !.day = 31],
      Billable            |-> "both",
      ClientIds           |-> "1,2",
      ProjectIds          |-> "3",
      UserIds             |-> "4,5",
      MembersOfGroupIds   |-> "6",
      OrMembersOfGroupIds |-> "7",
      TagIds              |-> "0",
      TaskIds             |-> "8",
      TimeEntryIds        |-> "9",
      Description         |-> "a&b=c d",
      WithoutDescription  |-> TRUE,
      OrderField          |-> "date",
      OrderDesc           |-> TRUE,
      DistinctRates       |-> TRUE,
      Rounding            |-> TRUE,
      DisplayHours        |-> "decimal" ]

Fields == DOMAIN ZeroParameters
RequiredFields == {"UserAgent", "WorkSpaceId"}

\* The parameters with exactly the fields of S set.
ParametersSetting(S) ==
    [f \in Fields |-> IF f \in S THEN SetValue[f] ELSE ZeroParameters[f]]

\* The fields of a parameter object that are set (non-empty, non-zero, true).
FieldsSet(std) == {f \in Fields : std[f] # ZeroParameters[f]}

\* Every parameter object with any of the required fields and at most n of
\* the optional fields set, with or without a page.
ParameterObjects(n) ==
    { [std |-> ParametersSetting(R \cup O), Page |-> pg] :
        R \in SUBSET RequiredFields,
        O \in {S \in SUBSET (Fields \ RequiredFields) : Cardinality(S) <= n},
        pg \in {0, 10} }

\* The parameter object of the tests: the two required fields, nothing else.
TestParameters == [std |-> ParametersSetting(RequiredFields), Page |-> 0]

-----------------------------------------------------------------------------
(* Go errors.                                                              *)

NilErr == [type |-> "nil"]

\* errors.New and fmt.Errorf without %w: a pointer to a fresh errorString.
\* Two of them are the same error only if the same allocation made them.
ErrorString(alloc, s) == [type |-> "*errors.errorString", alloc |-> alloc, s |-> s]

\* The package's error for a missing context, which the tests compare with.
ErrContextNotFound ==
    ErrorString("reports.ErrContextNotFound", "The provided ctx must be non-nil")

\* errors.Wrap of github.com/pkg/errors: the cause under a message and a stack.
Wrap(err, message) ==
    IF err = NilErr THEN NilErr
    ELSE [type |-> "*errors.withStack", msg |-> message, cause |-> err]

\* errors.Unwrap
Unwrap(err) == IF err.type = "*errors.withStack" THEN err.cause ELSE NilErr

RECURSIVE Is(_, _)
\* errors.Is: err or an error it wraps is the target itself.
Is(err, target) ==
    IF err = target THEN TRUE
    ELSE IF err = NilErr THEN FALSE
    ELSE Is(Unwrap(err), target)

RECURSIVE As(_, _)
\* errors.As: the first error of the chain of the given type, NilErr if none.
As(err, type) ==
    IF err = NilErr THEN NilErr
    ELSE IF err.type = type THEN err
    ELSE As(Unwrap(err), type)

-----------------------------------------------------------------------------
(* encoding/json.  A JSON text is a record of its bytes (raw), how far it  *)
(* scans (syn) and the value it holds (v):                                 *)
(*   "ok"        one JSON value and nothing else                           *)
(*   "trailing"  one JSON value followed by other bytes                    *)
(*   "bad"       bytes that are no JSON value (HTML, a cut-off object)     *)
(*   "empty"     no bytes                                                  *)

JNull   == [t |-> "null"]
JNum(n) == [t |-> "num", n |-> n]
JStr(s) == [t |-> "str", s |-> s]
JArr(a) == [t |-> "arr", a |-> a]
JObj(o) == [t |-> "obj", o |-> o]

Text(raw, syn, v) == [raw |-> raw, syn |-> syn, v |-> v]

\* Go types, as the decoder sees them through reflection.
TInt     == [kind |-> "int"]
TString  == [kind |-> "string"]
TTime    == [kind |-> "time"]
TSlice(elem)    == [kind |-> "slice", elem |-> elem]
TPtr(elem)      == [kind |-> "ptr", elem |-> elem]
\* fields: JSON key |-> [field |-> Go field name, type |-> its type]
TStruct(fields) == [kind |-> "struct", fields |-> fields]

GoFields(type) == {type.fields[k].field : k \in DOMAIN type.fields}
KeyOf(type, f) == CHOOSE k \in DOMAIN type.fields : type.fields[k].field = f

NilSlice == [isNil |-> TRUE, elems |-> <<>>]
NilPtr   == [isNil |-> TRUE]

RECURSIVE Zero(_)
\* The zero value of a Go type.
Zero(type) ==
    CASE type.kind = "int"    -> 0
      [] type.kind = "string" -> ""
      [] type.kind = "time"   -> ZeroTime
      [] type.kind = "slice"  -> NilSlice
      [] type.kind = "ptr"    -> NilPtr
      [] type.kind = "struct" ->
            [f \in GoFields(type) |-> Zero(type.fields[KeyOf(type, f)].type)]

DigitValue ==
    [d \in {"0", "1", "2", "3", "4", "5", "6", "7", "8", "9"} |->
        CASE d = "0" -> 0 [] d = "1" -> 1 [] d = "2" -> 2 [] d = "3" -> 3
          [] d = "4" -> 4 [] d = "5" -> 5 [] d = "6" -> 6 [] d = "7" -> 7
          [] d = "8" -> 8 [] d = "9" -> 9]

IsDigits(s) == \A i \in 1..Len(s) : Char(s, i) \in DOMAIN DigitValue

RECURSIVE Atoi(_)
Atoi(s) ==
    IF s = "" THEN 0
    ELSE 10 * Atoi(SubSeq(s, 1, Len(s) - 1)) + DigitValue[Char(s, Len(s))]

\* An RFC 3339 UTC timestamp "YYYY-MM-DDThh:mm:ss[.fraction]Z".
IsRFC3339(s) ==
    /\ Len(s) >= 20
    /\ IsDigits(SubSeq(s, 1, 4)) /\ Char(s, 5) = "-"
    /\ IsDigits(SubSeq(s, 6, 7)) /\ Char(s, 8) = "-"
    /\ IsDigits(SubSeq(s, 9, 10)) /\ Char(s, 11) = "T"
    /\ IsDigits(SubSeq(s, 12, 13)) /\ Char(s, 14) = ":"
    /\ IsDigits(SubSeq(s, 15, 16)) /\ Char(s, 17) = ":"
    /\ IsDigits(SubSeq(s, 18, 19))
    /\ Char(s, Len(s)) = "Z"

\* time.Time.UnmarshalJSON, to the second.
ParseTime(s) ==
    [ year   |-> Atoi(SubSeq(s, 1, 4)),   month  |-> Atoi(SubSeq(s, 6, 7)),
      day    |-> Atoi(SubSeq(s, 9, 10)),  hour   |-> Atoi(SubSeq(s, 12, 13)),
      minute |-> Atoi(SubSeq(s, 15, 16)), second |-> Atoi(SubSeq(s, 18, 19)) ]

RECURSIVE unmarshal(_, _, _)
\* The decoder storing JSON value jv into the Go value cur of the given type:
\* the new value, and whether some JSON value did not fit its Go type.  A value
\* that does not fit is skipped and the rest is still stored; null leaves a
\* number, string or struct alone and sets a slice or pointer to nil; a key
\* the struct has no field for is ignored.
unmarshal(jv, cur, type) ==
    CASE type.kind = "int" ->
            IF jv.t = "num" THEN [val |-> jv.n, bad |-> FALSE]
            ELSE [val |-> cur, bad |-> jv.t # "null"]
      [] type.kind = "string" ->
            IF jv.t = "str" THEN [val |-> jv.s, bad |-> FALSE]
            ELSE [val |-> cur, bad |-> jv.t # "null"]
      [] type.kind = "time" ->
            IF jv.t = "str" /\ IsRFC3339(jv.s)
            THEN [val |-> ParseTime(jv.s), bad |-> FALSE]
            ELSE [val |-> cur, bad |-> jv.t # "null"]
      [] type.kind = "ptr" ->
            IF jv.t = "null" THEN [val |-> NilPtr, bad |-> FALSE]
            ELSE With(unmarshal(jv, IF cur.isNil THEN Zero(type.elem) ELSE cur.elem,
                                type.elem),
                      LAMBDA r : [val |-> [isNil |-> FALSE, elem |-> r.val],
                                  bad |-> r.bad])
      [] type.kind = "slice" ->
            IF jv.t = "null" THEN [val |-> NilSlice, bad |-> FALSE]
            ELSE IF jv.t # "arr" THEN [val |-> cur, bad |-> TRUE]
            ELSE With([i \in 1..Len(jv.a) |->
                          unmarshal(jv.a[i], Zero(type.elem), type.elem)],
                      LAMBDA r : [val |-> [isNil |-> FALSE,
                                           elems |-> [i \in 1..Len(jv.a) |-> r[i].val]],
                                  bad |-> \E i \in 1..Len(jv.a) : r[i].bad])
      [] type.kind = "struct" ->
            IF jv.t = "null" THEN [val |-> cur, bad |-> FALSE]
            ELSE IF jv.t # "obj" THEN [val |-> cur, bad |-> TRUE]
            ELSE With([k \in DOMAIN type.fields |->
                          IF k \in DOMAIN jv.o
                          THEN unmarshal(jv.o[k], cur[type.fields[k].field],
                                         type.fields[k].type)
                          ELSE [val |-> cur[type.fields[k].field], bad |-> FALSE]],
                      LAMBDA r : [val |-> [f \in GoFields(type) |-> r[KeyOf(type, f)].val],
                                  bad |-> \E k \in DOMAIN type.fields : r[k].bad])

JSONError(type) == [type |-> type]

\* json.Unmarshal(data, out): the whole of data must be one JSON value.
Unmarshal(data, out, type) ==
    IF data.syn # "ok" THEN [err |-> JSONError("*json.SyntaxError"), out |-> out]
    ELSE With(unmarshal(data.v, out, type), LAMBDA r :
            [err |-> IF r.bad THEN JSONError("*json.UnmarshalTypeError") ELSE NilErr,
             out |-> r.val])

\* json.NewDecoder(body).Decode(out): reads the next JSON value of the stream,
\* scanning it to its end before storing any of it, and leaves the rest unread.
Decode(body, out, type) ==
    IF body.syn = "empty" THEN [err |-> JSONError("io.EOF"), out |-> out]
    ELSE IF body.syn = "bad" THEN [err |-> JSONError("*json.SyntaxError"), out |-> out]
    ELSE With(unmarshal(body.v, out, type), LAMBDA r :
            [err |-> IF r.bad THEN JSONError("*json.UnmarshalTypeError") ELSE NilErr,
             out |-> r.val])

-----------------------------------------------------------------------------
(* The structures a report request decodes into.                           *)

\* The caller's structure for a detailed report.
detailedReport ==
    TStruct([ total_count |-> [field |-> "TotalCount", type |-> TInt],
              per_page    |-> [field |-> "PerPage", type |-> TInt],
              data        |-> [field |-> "Data", type |->
                  TSlice(TStruct([ user        |-> [field |-> "User", type |-> TString],
                                   project     |-> [field |-> "Project", type |-> TString],
                                   description |-> [field |-> "Description",
                                                    type |-> TString] ]))] ])

\* ReportsError: the response of an unsuccessful request.
ReportsError ==
    TStruct([ error |-> [field |-> "Err", type |->
                  TStruct([ message |-> [field |-> "Message", type |-> TString],
                            tip     |-> [field |-> "Tip", type |-> TString],
                            code    |-> [field |-> "StatusCode", type |-> TInt] ])] ])

\* Tag: the properties of a tag.
Tag ==
    TStruct([ id           |-> [field |-> "ID", type |-> TPtr(TInt)],
              workspace_id |-> [field |-> "WorkspaceID", type |-> TPtr(TInt)],
              name         |-> [field |-> "Name", type |-> TPtr(TString)],
              at           |-> [field |-> "At", type |-> TPtr(TTime)],
              deleted_at   |-> [field |-> "DeletedAt", type |-> TPtr(TTime)] ])

\* The Go type behind each pointer type passed as interface{}.
GoType(name) ==
    CASE name = "*detailedReport" -> detailedReport
      [] name = "*ReportsError"   -> ReportsError
      [] name = "*[]*Tag"         -> TSlice(TPtr(Tag))

\* new(T) as an interface{} value: its dynamic type and what it points to.
New(name) == [type |-> name, v |-> Zero(GoType(name))]

-----------------------------------------------------------------------------
(* net/url.URL and net/http.                                               *)

\* url.Parse of an absolute URL "scheme://host[/path][?query]".
Parse(rawurl) ==
    With(Index(rawurl, ":"), LAMBDA colon :
    With(SubSeq(rawurl, colon + 3, Len(rawurl)), LAMBDA rest :
    With(Index(rest, "?"), LAMBDA q :
    With(IF q = 0 THEN rest ELSE SubSeq(rest, 1, q - 1), LAMBDA hier :
    With(Index(hier, "/"), LAMBDA slash :
        [ ok       |-> /\ colon > 1
                       /\ SubSeq(rawurl, colon, colon + 2) = "://"
                       /\ Index(hier, " ") = 0,
          Scheme   |-> SubSeq(rawurl, 1, colon - 1),
          Host     |-> IF slash = 0 THEN hier ELSE SubSeq(hier, 1, slash - 1),
          Path     |-> IF slash = 0 THEN "" ELSE SubSeq(hier, slash, Len(hier)),
          RawQuery |-> IF q = 0 THEN "" ELSE SubSeq(rest, q + 1, Len(rest)) ])))))

\* url.URL.String, for paths that need no escaping.
String(u) ==
    u.Scheme \o "://" \o u.Host
        \o (IF u.Path # "" /\ Char(u.Path, 1) # "/" THEN "/" ELSE "") \o u.Path
        \o (IF u.RawQuery # "" THEN "?" \o u.RawQuery ELSE "")

Lower == "abcdefghijklmnopqrstuvwxyz"
Upper == "ABCDEFGHIJKLMNOPQRSTUVWXYZ"

ToUpper(c) == IF Index(Lower, c) = 0 THEN c ELSE Char(Upper, Index(Lower, c))
ToLower(c) == IF Index(Upper, c) = 0 THEN c ELSE Char(Lower, Index(Upper, c))

RECURSIVE CanonicalFrom(_, _)
CanonicalFrom(s, i) ==
    IF i > Len(s) THEN ""
    ELSE (IF i = 1 \/ Char(s, i - 1) = "-" THEN ToUpper(Char(s, i))
          ELSE ToLower(Char(s, i))) \o CanonicalFrom(s, i + 1)

\* textproto.CanonicalMIMEHeaderKey: "content-type" becomes "Content-Type".
CanonicalMIMEHeaderKey(s) == CanonicalFrom(s, 1)

\* make(http.Header)
EmptyHeader == [k \in {} |-> <<>>]

\* http.Header.Set
HeaderSet(h, key, value) ==
    [k \in DOMAIN h \cup {CanonicalMIMEHeaderKey(key)} |->
        IF k = CanonicalMIMEHeaderKey(key) THEN <<value>> ELSE h[k]]

\* http.Header.Get
HeaderGet(h, key) ==
    IF CanonicalMIMEHeaderKey(key) \in DOMAIN h
    THEN h[CanonicalMIMEHeaderKey(key)][1]
    ELSE ""

\* The base64 text of s.  The encoding is a bijection and is not computed:
\* the text is kept recognisable as the encoding of s.
Base64(s) == "base64(" \o s \o ")"
IsBase64(t) == Len(t) >= 8 /\ SubSeq(t, 1, 7) = "base64(" /\ Char(t, Len(t)) = ")"
UnBase64(t) == SubSeq(t, 8, Len(t) - 1)

\* http.NewRequest(method, url, nil)
NewRequest(method, url) ==
    With(Parse(url), LAMBDA u :
        IF ~u.ok THEN [err |-> [type |-> "*url.Error"], req |-> [sent |-> FALSE]]
        ELSE [ err |-> NilErr,
               req |-> [ sent   |-> FALSE,
                         Method |-> method,
                         URL    |-> [Scheme |-> u.Scheme, Host |-> u.Host,
                                     Path |-> u.Path, RawQuery |-> u.RawQuery],
                         Header |-> EmptyHeader,
                         ctx    |-> "Background" ] ])

\* http.Request.SetBasicAuth
SetBasicAuth(req, username, password) ==
    [req EXCEPT !.Header =
        HeaderSet(@, "Authorization", "Basic " \o Base64(username \o ":" \o password))]

\* http.Request.BasicAuth, as the server reads the credentials of a request.
BasicAuth(req) ==
    With(HeaderGet(req.Header, "Authorization"), LAMBDA auth :
    With(SubSeq(auth, 7, Len(auth)), LAMBDA text :
    With(UnBase64(text), LAMBDA cred :
    With(Index(cred, ":"), LAMBDA sep :
        IF Len(auth) < 6 \/ SubSeq(auth, 1, 6) # "Basic " \/ ~IsBase64(text) \/ sep = 0
        THEN [ok |-> FALSE, username |-> "", password |-> ""]
        ELSE [ok |-> TRUE, username |-> SubSeq(cred, 1, sep - 1),
              password |-> SubSeq(cred, sep + 1, Len(cred))]))))

\* http.Request.WithContext
WithContext(req, ctx) == [req EXCEPT !.ctx = ctx]

\* An *http.Response the transport hands back: the body is open, not yet read.
Response(status, text) == [StatusCode |-> status, Body |-> text]

-----------------------------------------------------------------------------
(* The reports Client.                                                     *)

basicAuthPassword == "api_token"
defaultBaseURL    == "https://toggl.com"

\* The url.URL of a parsed base URL, as the Client keeps it.
URLOf(rawurl) ==
    With(Parse(rawurl), LAMBDA u :
        [Scheme |-> u.Scheme, Host |-> u.Host, Path |-> u.Path, RawQuery |-> u.RawQuery])

\* The options of NewClient.
baseURL(rawurl) == [option |-> "baseURL", rawurl |-> rawurl]
HTTPClient(httpClient) == [option |-> "HTTPClient", httpClient |-> httpClient]

\* An option applied to the client under construction.
ApplyOption(option, c) ==
    IF option.option = "baseURL" THEN [c EXCEPT !.url = URLOf(option.rawurl)]
    ELSE [c EXCEPT !.httpClient = option.httpClient]

RECURSIVE ApplyOptions(_, _, _)
ApplyOptions(options, i, c) ==
    IF i > Len(options) THEN c
    ELSE ApplyOptions(options, i + 1, ApplyOption(options[i], c))

NewClient(apiToken, options) ==
    LET newClient == [ httpClient |-> "http.DefaultClient",
                       apiToken   |-> apiToken,
                       header     |-> HeaderSet(EmptyHeader, "Content-type",
                                                "application/json"),
                       url        |-> URLOf(defaultBaseURL) ]
    IN  ApplyOptions(options, 1, newClient)

\* Client.buildURL, its first statement: c.url.Path = endpoint.
buildURLPath(c, endpoint) == [c EXCEPT !.url.Path = endpoint]

\* Client.buildURL, its second statement: c.url.String() + "?" + params.urlEncode().
buildURLString(c, params) == String(c.url) \o "?" \o urlEncode(params)

\* decodeJSON without the deferred resp.Body.Close().
decodeJSON_LeavesBodyOpen(resp, out) ==
    With(Decode(resp.Body, out.v, GoType(out.type)), LAMBDA r :
        [err |-> r.err, out |-> [out EXCEPT !.v = r.out], closed |-> 0])

\* decodeJSON: decodes the body into out and closes the body.
decodeJSON(resp, out) ==
    With(Decode(resp.Body, out.v, GoType(out.type)), LAMBDA r :
        [err |-> r.err, out |-> [out EXCEPT !.v = r.out], closed |-> 1])

NoResponse == [StatusCode |-> 0, Body |-> Text("", "empty", JNull)]

\* checkResponse with the lower bound of the status off by one: 200 is an error.
checkResponse_StatusOffByOne(resp, err) ==
    IF err # NilErr THEN [ok |-> FALSE, resp |-> NoResponse, err |-> err, closed |-> 0]
    ELSE IF resp.StatusCode <= 200 \/ 300 <= resp.StatusCode
    THEN With(decodeJSON(resp, New("*ReportsError")), LAMBDA d :
            IF d.err # NilErr
            THEN [ok |-> FALSE, resp |-> NoResponse, err |-> d.err, closed |-> d.closed]
            ELSE [ok |-> FALSE, resp |-> NoResponse,
                  err |-> [type |-> "*ReportsError", Err |-> d.out.v.Err],
                  closed |-> d.closed])
    ELSE [ok |-> TRUE, resp |-> resp, err |-> NilErr, closed |-> 0]

\* checkResponse(resp, err) for what the transport returned: the response to
\* decode (ok) or the error to return, and how often the body was closed.
checkResponse(resp, err) ==
    IF err # NilErr THEN [ok |-> FALSE, resp |-> NoResponse, err |-> err, closed |-> 0]
    ELSE IF resp.StatusCode <= 199 \/ 300 <= resp.StatusCode
    THEN With(decodeJSON(resp, New("*ReportsError")), LAMBDA d :
            IF d.err # NilErr
            THEN [ok |-> FALSE, resp |-> NoResponse, err |-> d.err, closed |-> d.closed]
            ELSE [ok |-> FALSE, resp |-> NoResponse,
                  err |-> [type |-> "*ReportsError", Err |-> d.out.v.Err],
                  closed |-> d.closed])
    ELSE [ok |-> TRUE, resp |-> resp, err |-> NilErr, closed |-> 0]

\* Client.get.  rt is what c.httpClient.Do returns if the request is sent: a
\* response or a transport error.  The result: the error returned, the report
\* as the call leaves it, the request as sent (or not), the closes of the body.
get(c, ctx, url, report, rt) ==
    With(NewRequest("GET", url), LAMBDA n :
    IF n.err # NilErr
    THEN [err |-> n.err, report |-> report, req |-> n.req, closed |-> 0]
    ELSE
    With(SetBasicAuth(n.req, c.apiToken, basicAuthPassword), LAMBDA req :
    IF ctx = "nil"
    THEN [err |-> ErrorString("reports.get", "The provided ctx must be non-nil"),
          report |-> report, req |-> req, closed |-> 0]
    ELSE
    With([WithContext(req, ctx) EXCEPT !.sent = TRUE], LAMBDA sent :
    With(checkResponse(rt.resp, rt.err), LAMBDA chk :
    IF chk.err # NilErr
    THEN [err |-> chk.err, report |-> report, req |-> sent, closed |-> chk.closed]
    ELSE
    With(decodeJSON(chk.resp, report), LAMBDA d :
        [err |-> d.err, report |-> d.out, req |-> sent,
         closed |-> chk.closed + d.closed])))))

-----------------------------------------------------------------------------
(* What the server answers.                                                *)

ReportRow(user, project, description) ==
    JObj([user |-> JStr(user), project |-> JStr(project),
          description |-> JStr(description)])

\* A detailed report, as testdata/detailed.json.
DetailedJSON ==
    Text("{\"total_count\":2,\"per_page\":50,\"data\":[{\"user\":\"u\",\"project\":\"p\",\"description\":\"d\"}]}",
         "ok",
         JObj([total_count |-> JNum(2), per_page |-> JNum(50),
               data |-> JArr(<<ReportRow("u", "p", "d")>>)]))

\* A report that leaves fields out.
PartialJSON ==
    Text("{\"total_count\":3}", "ok", JObj([total_count |-> JNum(3)]))

\* Valid JSON with a value of another type than the report's field.
MistypedJSON ==
    Text("{\"total_count\":\"two\",\"per_page\":50}", "ok",
         JObj([total_count |-> JStr("two"), per_page |-> JNum(50)]))

NullJSON == Text("null", "ok", JNull)

\* A JSON value with bytes after it.
TrailingJSON ==
    Text("{\"per_page\":25}}", "trailing", JObj([per_page |-> JNum(25)]))

\* The error body of 401 Unauthorized, as testdata/401_unauthorized.json.
UnauthorizedJSON ==
    Text("{\"error\":{\"message\":\"api token missing\",\"tip\":\"You can find your API Token in your profile at https://www.toggl.com\",\"code\":401}}",
         "ok",
         JObj([error |-> JObj([
             message |-> JStr("api token missing"),
             tip     |-> JStr("You can find your API Token in your profile at https://www.toggl.com"),
             code    |-> JNum(401)])]))

\* An error body that names no code.
NoCodeJSON ==
    Text("{\"error\":{\"message\":\"Forbidden\"}}", "ok",
         JObj([error |-> JObj([message |-> JStr("Forbidden")])]))

\* The body of 429 Too Many Requests, as testdata/429_too_many_requests.html.
TooManyRequestsHTML ==
    Text("<html><head><title>429 Too Many Requests</title></head></html>",
         "bad", JNull)

EmptyBody == Text("", "empty", JNull)

ReportBodies ==
    { DetailedJSON, PartialJSON, MistypedJSON, NullJSON, TrailingJSON,
      UnauthorizedJSON, NoCodeJSON, TooManyRequestsHTML, EmptyBody }

Statuses == {199, 200, 299, 300, 401, 429}

IsSuccess(status) == 200 <= status /\ status <= 299

NoRoundTrip == [resp |-> NoResponse, err |-> NilErr, made |-> FALSE]

\* What c.httpClient.Do may return: any status with any body or, when the
\* server cannot be reached, an error of the transport.
RoundTrips(statuses, bodies) ==
    { [resp |-> Response(st, b), err |-> NilErr, made |-> TRUE] :
        st \in statuses, b \in bodies }
    \cup { [resp |-> NoResponse, err |-> [type |-> "*url.Error"], made |-> TRUE] }

-----------------------------------------------------------------------------
(* Report requests.  GetDetailed, GetSummary and GetWeekly each build the  *)
(* URL of their endpoint with buildURL and pass it to get.                 *)

detailedEndpoint == "/reports/api/v2/details"
summaryEndpoint  == "/reports/api/v2/summary"
weeklyEndpoint   == "/reports/api/v2/weekly"

Endpoints == {detailedEndpoint, summaryEndpoint, weeklyEndpoint}

Callers == 1..NCalls

\* An output structure a caller already used.
UsedReport ==
    [ type |-> "*detailedReport",
      v    |-> [TotalCount |-> 7, PerPage |-> 9, Data |-> NilSlice] ]

Reports == {New("*detailedReport"), UsedReport}

NoRequest == [sent |-> FALSE]

\* The contexts a caller passes: nil, or context.Background().
Contexts   == {"nil", "Background"}
Background == {"Background"}

\* The output structures a caller passes: a new one, or one already used.
NewReports == {New("*detailedReport")}

\* The parameter objects a caller passes.
TestParameterObjects == {TestParameters}
AnyParameterObjects  == ParameterObjects(MaxSet)

DetailedEndpoint == {detailedEndpoint}

\* What the transport may return: any status with any body, or the answer
\* 200 with a detailed report.
AnyRoundTrips == RoundTrips(Statuses, ReportBodies)
OKRoundTrips  == RoundTrips({200}, {DetailedJSON})

IdleCall ==
    [ pc       |-> "idle",
      endpoint |-> "",
      ctx      |-> "nil",
      params   |-> [std |-> ZeroParameters, Page |-> 0],
      url      |-> "",
      before   |-> New("*detailedReport"),  \* the output as the caller passed it
      report   |-> New("*detailedReport"),  \* the output as it is now
      rt       |-> NoRoundTrip,             \* what the transport returned
      req      |-> NoRequest,               \* the request get built
      err      |-> NilErr,                  \* the error returned
      closed   |-> 0 ]                      \* closes of the response body

Tokens == {"api_token", "s3cr3t"}

MockServerURL == "http://127.0.0.1:8080"

\* The option lists clients are constructed with.
OptionLists ==
    { <<>>,
      <<baseURL(MockServerURL)>>,
      <<baseURL(MockServerURL \o "/mock"), HTTPClient("custom")>> }

InitReports ==
    /\ client \in {NewClient(t, o) : t \in Tokens, o \in OptionLists}
    /\ calls = [i \in Callers |-> IdleCall]

\* Caller i calls a report method.
Begin(i, endpoints, ctxs, parameters, reports) ==
    /\ calls[i].pc = "idle"
    /\ \E e \in endpoints, ctx \in ctxs, p \in parameters, r \in reports :
          calls' = [calls EXCEPT ![i] =
                       [IdleCall EXCEPT !.pc = "buildURL", !.endpoint = e, !.ctx = ctx,
                                        !.params = p, !.before = r, !.report = r]]
    /\ UNCHANGED <<client, tclient, tcall>>

\* buildURL stores the endpoint in the Client's URL.
BuildURLPath(i) ==
    /\ calls[i].pc = "buildURL"
    /\ client' = buildURLPath(client, calls[i].endpoint)
    /\ calls' = [calls EXCEPT ![i].pc = "String"]
    /\ UNCHANGED <<tclient, tcall>>

\* buildURL reads the Client's URL back and appends the query.
BuildURLString(i) ==
    /\ calls[i].pc = "String"
    /\ calls' = [calls EXCEPT ![i].pc = "get",
                              ![i].url = buildURLString(client, calls[i].params)]
    /\ UNCHANGED <<client, tclient, tcall>>

\* get: the request, the round trip if it is made, the decoding, the return.
Get(i, roundTrips) ==
    /\ calls[i].pc = "get"
    /\ \E rt \in roundTrips :
        \E r \in {get(client, calls[i].ctx, calls[i].url, calls[i].report, rt)} :
              calls' = [calls EXCEPT ![i].pc = "done",
                                     ![i].rt = IF r.req.sent THEN rt ELSE NoRoundTrip,
                                     ![i].req = r.req,
                                     ![i].err = r.err,
                                     ![i].report = r.report,
                                     ![i].closed = r.closed]
    /\ UNCHANGED <<client, tclient, tcall>>

\* The caller is done with the result and may call again.
Return(i) ==
    /\ calls[i].pc = "done"
    /\ calls' = [calls EXCEPT ![i] = IdleCall]
    /\ UNCHANGED <<client, tclient, tcall>>

-----------------------------------------------------------------------------
(* The tags of the track API (package toggl).                              *)

workspacesPath == "api/v9/workspaces"

RECURSIVE JoinFrom(_, _)
JoinFrom(elem, i) ==
    IF i > Len(elem) THEN ""
    ELSE IF elem[i] = "" THEN JoinFrom(elem, i + 1)
    ELSE "/" \o elem[i] \o JoinFrom(elem, i + 1)

\* path.Join of elements that are clean already: the non-empty ones, joined
\* by slashes.
Join(elem) ==
    With(JoinFrom(elem, 1), LAMBDA s : IF s = "" THEN "" ELSE SubSeq(s, 2, Len(s)))

\* The client's GET of an API path: on a 2xx status the body is decoded into
\* respBody; on any other status the error is an ErrorResponse with the
\* status and the body as it came; without a context no request is made.
httpGet(c, ctx, apiSpecificPath, respBody, rt) ==
    IF ctx = "nil"
    THEN [err |-> ErrorString("track.ErrContextNotFound", "the provided ctx must be non-nil"),
          out |-> respBody, req |-> NoRequest]
    ELSE
    With([sent |-> TRUE, Method |-> "GET",
          URL |-> c.baseURL \o "/" \o apiSpecificPath,
          username |-> c.apiToken, password |-> basicAuthPassword], LAMBDA req :
    IF rt.err # NilErr THEN [err |-> rt.err, out |-> respBody, req |-> req]
    ELSE IF ~IsSuccess(rt.resp.StatusCode)
    THEN [err |-> [type |-> "*internal.ErrorResponse",
                   StatusCode |-> rt.resp.StatusCode,
                   Message |-> rt.resp.Body.raw],
          out |-> respBody, req |-> req]
    ELSE
    With(Decode(rt.resp.Body, respBody.v, GoType(respBody.type)), LAMBDA d :
        [err |-> d.err, out |-> [respBody EXCEPT !.v = d.out], req |-> req]))

\* GetTags returning the tags it decoded along with the error.
GetTags_ReturnsTagsWithError(c, ctx, workspaceID, rt) ==
    With(Join(<<workspacesPath, ToString(workspaceID), "tags">>),
         LAMBDA apiSpecificPath :
    With(httpGet(c, ctx, apiSpecificPath, New("*[]*Tag"), rt), LAMBDA r :
        [tags |-> r.out.v, err |-> Wrap(r.err, ""), req |-> r.req]))

\* Client.GetTags: the tags and the error it returns, and the request made.
GetTags(c, ctx, workspaceID, rt) ==
    With(Join(<<workspacesPath, ToString(workspaceID), "tags">>),
         LAMBDA apiSpecificPath :
    With(httpGet(c, ctx, apiSpecificPath, New("*[]*Tag"), rt), LAMBDA r :
        IF r.err # NilErr
        THEN [tags |-> NilSlice, err |-> Wrap(r.err, ""), req |-> r.req]
        ELSE [tags |-> r.out.v, err |-> NilErr, req |-> r.req]))

\* DeleteTag sending a DELETE for the tag, as the other tag methods send
\* their requests.
DeleteTag_ViaHTTP(c, ctx, workspaceID, tagID, rt) ==
    With(Join(<<workspacesPath, ToString(workspaceID), "tags", ToString(tagID)>>),
         LAMBDA apiSpecificPath :
    With(httpGet(c, ctx, apiSpecificPath, New("*[]*Tag"), rt), LAMBDA r :
        [err |-> Wrap(r.err, ""), req |-> [r.req EXCEPT !.Method = "DELETE"]]))

\* Client.DeleteTag: return nil.  It reads none of its arguments and calls
\* nothing, so rt, what the server would answer, is never asked for.
DeleteTag(c, ctx, workspaceID, tagID, rt) ==
    [err |-> NilErr, req |-> NoRequest]

\* The tags of a workspace, as testdata/tags/get_tags_200_ok.json.
TagsJSON ==
    Text("[{\"id\":12345678,\"workspace_id\":1234567,\"name\":\"toggl-go\",\"at\":\"2020-01-02T03:04:05.678901Z\"}]",
         "ok",
         JArr(<<JObj([ id           |-> JNum(12345678),
                       workspace_id |-> JNum(1234567),
                       name         |-> JStr("toggl-go"),
                       at           |-> JStr("2020-01-02T03:04:05.678901Z") ])>>))

NoTagsJSON == Text("[]", "ok", JArr(<<>>))

\* A tag list whose second tag has a text for its id.
MistypedTagsJSON ==
    Text("[{\"id\":1,\"name\":\"a\"},{\"id\":\"two\"}]", "ok",
         JArr(<<JObj([id |-> JNum(1), name |-> JStr("a")]),
                JObj([id |-> JStr("two")])>>))

\* The body of 400 Bad Request, as testdata/tags/get_tags_400_bad_request.json.
BadRequestJSON ==
    Text("\"Missing or invalid workspace_id\"\n", "ok",
         JStr("Missing or invalid workspace_id"))

TagBodies ==
    { TagsJSON, NoTagsJSON, MistypedTagsJSON, NullJSON, BadRequestJSON,
      TooManyRequestsHTML, EmptyBody }

TagStatuses == {200, 400, 401, 403, 404, 500}

TagRoundTrips == RoundTrips(TagStatuses, TagBodies)

WorkspaceIDs == {1234567, 1, 0}

\* A tag that exists and one that does not.
TagIDs == {12345678, 0}

IdleTagCall ==
    [ pc          |-> "idle",
      method      |-> "",
      ctx         |-> "nil",
      workspaceID |-> 0,
      tagID       |-> 0,
      server      |-> NoRoundTrip,   \* what the server answers, if asked
      rt          |-> NoRoundTrip,
      req         |-> NoRequest,
      tags        |-> NilSlice,
      err         |-> NilErr ]

InitTags ==
    /\ tclient = [apiToken |-> "api_token", baseURL |-> MockServerURL]
    /\ tcall = IdleTagCall

\* A caller calls GetTags and gets its result.
CallGetTags ==
    /\ tcall.pc = "idle"
    /\ \E ctx \in Contexts, w \in WorkspaceIDs, rt \in TagRoundTrips :
        \E r \in {GetTags(tclient, ctx, w, rt)} :
            tcall' = [ pc          |-> "done",
                       method      |-> "GetTags",
                       ctx         |-> ctx,
                       workspaceID |-> w,
                       tagID       |-> 0,
                       server      |-> rt,
                       rt          |-> IF r.req.sent THEN rt ELSE NoRoundTrip,
                       req         |-> r.req,
                       tags        |-> r.tags,
                       err         |-> r.err ]
    /\ UNCHANGED <<client, calls, tclient>>

\* A caller calls DeleteTag and gets its result.
CallDeleteTag ==
    /\ tcall.pc = "idle"
    /\ \E ctx \in Contexts, w \in WorkspaceIDs, t \in TagIDs, rt \in TagRoundTrips :
        \E r \in {DeleteTag(tclient, ctx, w, t, rt)} :
            tcall' = [ pc          |-> "done",
                       method      |-> "DeleteTag",
                       ctx         |-> ctx,
                       workspaceID |-> w,
                       tagID       |-> t,
                       server      |-> rt,
                       rt          |-> IF r.req.sent THEN rt ELSE NoRoundTrip,
                       req         |-> r.req,
                       tags        |-> NilSlice,
                       err         |-> r.err ]
    /\ UNCHANGED <<client, calls, tclient>>

\* The caller is done with the result.
TagsReturn ==
    /\ tcall.pc = "done"
    /\ tcall' = IdleTagCall
    /\ UNCHANGED <<client, calls, tclient>>

NextTags == CallGetTags \/ CallDeleteTag \/ TagsReturn

Init == InitReports /\ InitTags

\* One caller at a time; any context, output, status and body.
Next ==
    \/ Begin(1, Endpoints, Contexts, TestParameterObjects, Reports)
    \/ BuildURLPath(1)
    \/ BuildURLString(1)
    \/ Get(1, AnyRoundTrips)
    \/ Return(1)

Spec == Init /\ [][Next]_vars

\* Any caller at any time, each with its own endpoint.
InitOne ==
    /\ client = NewClient("api_token", <<baseURL(MockServerURL)>>)
    /\ calls = [i \in Callers |-> IdleCall]
    /\ InitTags

NextConc ==
    \E i \in Callers :
        \/ Begin(i, Endpoints, Background, TestParameterObjects, NewReports)
        \/ BuildURLPath(i)
        \/ BuildURLString(i)
        \/ Get(i, OKRoundTrips)
        \/ Return(i)

SpecConc == InitOne /\ [][NextConc]_vars

\* One caller, any parameter object, a server that answers 200.
NextParams ==
    \/ Begin(1, DetailedEndpoint, Background, AnyParameterObjects, NewReports)
    \/ BuildURLPath(1)
    \/ BuildURLString(1)
    \/ Get(1, OKRoundTrips)
    \/ Return(1)

SpecParams == InitOne /\ [][NextParams]_vars

SpecTags == InitOne /\ [][NextTags]_vars

-----------------------------------------------------------------------------
(* Properties of a report request.                                         *)

Returned(i) == calls[i].pc = "done"

\* Caller i's request reached the server, which answered with a response.
Answered(i) == Returned(i) /\ calls[i].rt.made /\ calls[i].rt.err = NilErr

StatusOf(i) == calls[i].rt.resp.StatusCode
BodyOf(i)   == calls[i].rt.resp.Body

\* C1: a report request called with a nil context returns the error
\* ErrContextNotFound (errors.Is) and sends no request to the server.
C1_NilContextIsErrContextNotFound ==
    \A i \in Callers :
        Returned(i) /\ calls[i].ctx = "nil" =>
            /\ Is(calls[i].err, ErrContextNotFound)
            /\ ~calls[i].req.sent

\* C2: for every response with a status outside 200..299 and a JSON body,
\* the request returns a ReportsError whose status code is the HTTP status.
C2_ErrorCarriesHTTPStatus ==
    \A i \in Callers :
        Answered(i) /\ ~IsSuccess(StatusOf(i)) /\ BodyOf(i).syn = "ok" =>
            /\ calls[i].err.type = "*ReportsError"
            /\ calls[i].err.Err.StatusCode = StatusOf(i)

\* What json.Unmarshal stores in a fresh detailedReport for the body of i.
Expected(i) == Unmarshal(BodyOf(i), Zero(detailedReport), detailedReport)

\* C3, as claimed: for every response with a status in 200..299 and a valid
\* JSON body, the request returns nil and the caller's output equals what
\* json.Unmarshal decodes from the body into a fresh structure.
C3_SuccessDecodesAnyValidJSON ==
    \A i \in Callers :
        Answered(i) /\ IsSuccess(StatusOf(i)) /\ BodyOf(i).syn = "ok" =>
            /\ calls[i].err = NilErr
            /\ calls[i].report.v = Expected(i).out

\* C3, amended: for every response with a status in 200..299 and a body that
\* json.Unmarshal decodes into a fresh structure without error, a request that
\* was given a zero-valued output returns nil and the output equals what
\* json.Unmarshal decodes.
C3_SuccessDecodesFittingJSON ==
    \A i \in Callers :
        /\ Answered(i) /\ IsSuccess(StatusOf(i))
        /\ Expected(i).err = NilErr
        /\ calls[i].before = New("*detailedReport")
        => /\ calls[i].err = NilErr
           /\ calls[i].report.v = Expected(i).out

\* A request answered 200 with the detailed report has decoded it.
C3_Witness ==
    \E i \in Callers :
        /\ Answered(i) /\ StatusOf(i) = 200 /\ BodyOf(i) = DetailedJSON
        /\ calls[i].before = New("*detailedReport")
        /\ calls[i].err = NilErr
        /\ calls[i].report.v.TotalCount = 2
        /\ Len(calls[i].report.v.Data.elems) = 1

\* C4: whenever a report request returns an error, the caller's output is
\* as it was before the call.
C4_ErrorLeavesOutputAlone ==
    \A i \in Callers :
        Returned(i) /\ calls[i].err # NilErr => calls[i].report = calls[i].before

\* C9: a request answered 429 with the HTML body returns the ReportsError
\* "Too Many Requests" / "Add delay between requests" / 429.
C9_TooManyRequestsIsReportsError ==
    \A i \in Callers :
        Answered(i) /\ StatusOf(i) = 429 /\ BodyOf(i) = TooManyRequestsHTML =>
            calls[i].err =
                [ type |-> "*ReportsError",
                  Err  |-> [ Message    |-> "Too Many Requests",
                             Tip        |-> "Add delay between requests",
                             StatusCode |-> 429 ] ]

\* C10: every request the Client sends carries the Client's API token and
\* the password "api_token" as basic-auth credentials, and every default
\* header of the Client.
C10_RequestsCarryAuthAndHeaders ==
    \A i \in Callers :
        calls[i].req.sent =>
            /\ BasicAuth(calls[i].req) =
                  [ok |-> TRUE, username |-> client.apiToken, password |-> "api_token"]
            /\ \A k \in DOMAIN client.header :
                  /\ k \in DOMAIN calls[i].req.Header
                  /\ calls[i].req.Header[k] = client.header[k]

\* C7: no request-building or request-sending step changes a field of the
\* Client.
C7_ClientKeepsItsFields == [][client' = client]_vars

\* C6: every request sent goes to the URL of its own call's endpoint, with
\* its own call's parameters, whatever the other callers do.
C6_RequestGoesToItsOwnEndpoint ==
    \A i \in Callers :
        calls[i].req.sent =>
            /\ calls[i].req.URL.Path = calls[i].endpoint
            /\ calls[i].req.URL.RawQuery = urlEncode(calls[i].params)

\* The query keys the server receives from caller i.
ReceivedKeys(i) == DOMAIN ParseQuery(calls[i].req.URL.RawQuery)

\* The query keys of the fields that caller i set.
KeysSet(i) ==
    {KeyOfField[f] : f \in FieldsSet(calls[i].params.std)}
        \cup (IF calls[i].params.Page # 0 THEN {"page"} ELSE {})

\* C5, as claimed: the keys the server receives are exactly those of the
\* fields that were set; no key is sent for an empty string, a zero time or a
\* false boolean.
C5_OnlySetFieldsAreSent ==
    \A i \in Callers : calls[i].req.sent => ReceivedKeys(i) = KeysSet(i)

\* C5, amended: user_agent and workspace_id are always sent, empty or not;
\* the other keys the server receives are exactly those of the fields set.
C5_RequiredAndSetFieldsAreSent ==
    \A i \in Callers :
        calls[i].req.sent =>
            ReceivedKeys(i) = {"user_agent", "workspace_id"} \cup KeysSet(i)

\* A request was sent with an empty user agent and a since date.
C5_Witness ==
    \E i \in Callers :
        /\ calls[i].req.sent
        /\ calls[i].params.std.UserAgent = ""
        /\ ~IsZero(calls[i].params.std.Since)
        /\ "since" \in ReceivedKeys(i)
        /\ "until" \notin ReceivedKeys(i)

\* C12: for every report request in which the transport returned a response,
\* the response body was closed exactly once when the call returns: on the
\* 2xx path, on the non-2xx path and when decoding the JSON fails.
C12_BodyClosedExactlyOnce ==
    \A i \in Callers : Answered(i) => calls[i].closed = 1

\* Calls that returned with the body closed once: the body of a non-2xx
\* answer that is not JSON, and the body of a 2xx answer that does not fit.
C12_Witness ==
    \E i \in Callers :
        /\ Answered(i) /\ calls[i].closed = 1
        /\ \/ /\ StatusOf(i) = 429 /\ BodyOf(i) = TooManyRequestsHTML
              /\ calls[i].err = JSONError("*json.SyntaxError")
           \/ /\ StatusOf(i) = 200 /\ BodyOf(i) = MistypedJSON
              /\ calls[i].err = JSONError("*json.UnmarshalTypeError")

-----------------------------------------------------------------------------
(* Properties of GetTags.                                                  *)

TagsAnswered ==
    /\ tcall.pc = "done" /\ tcall.method = "GetTags"
    /\ tcall.rt.made /\ tcall.rt.err = NilErr

\* What json.Unmarshal stores in a nil tag list for the body of the answer.
ExpectedTags ==
    Unmarshal(tcall.rt.resp.Body, NilSlice, TSlice(TPtr(Tag)))

-----------------------------------------------------------------------------
(* Properties of DeleteTag.                                                *)

====
